---- MODULE Spec2Model ----
(***************************************************************************)
(* A model of the lilliput codec core: the IntValue comparison and hashing *)
(* rules, the bool/bytes/seq header layouts and the decoder's position     *)
(* bookkeeping over a reader.                                              *)
(***************************************************************************)
EXTENDS Integers, Sequences, FiniteSets, TLC

VARIABLES
    src,        \* the input drawn for the run (a value, a header, integers)
    input,      \* the bytes the reader stands on
    readerKind, \* "slice" (borrows) or "stream" (copies into scratch)
    usize_bits, \* usize::BITS of the target the code is built for
    offset,     \* bytes the reader has handed out or skipped so far
    pos,        \* Decoder.pos
    op,         \* the last operation applied
    res         \* what the last operation returned

vars == <<src, input, readerKind, usize_bits, offset, pos, op, res>>

----------------------------------------------------------------------------
(* Bounds of the model.                                                    *)

\* how far the integer and length samples reach around each edge of a range
Spread == 2

\* the longest byte array, string and sequence drawn as a value
MaxBytesLen == 2
MaxSeqLen == 2

\* the most bytes asked of a pull primitive in one call
MaxPull == 2

----------------------------------------------------------------------------
(* Bytes and bits.                                                         *)

RECURSIVE BitAnd(_, _)
BitAnd(a, b) ==
    IF a = 0 \/ b = 0 THEN 0
    ELSE (a % 2) * (b % 2) + 2 * BitAnd(a \div 2, b \div 2)

RECURSIVE BitOr(_, _)
BitOr(a, b) ==
    IF a = 0 THEN b
    ELSE IF b = 0 THEN a
    ELSE (IF (a % 2) + (b % 2) > 0 THEN 1 ELSE 0) + 2 * BitOr(a \div 2, b \div 2)

\* binary::bits_if(bits, condition)
bits_if(bits, cond) == IF cond THEN bits ELSE 0

\* The n low-order bytes of x, least significant first.  Floor division makes
\* this the two's complement pattern when x is negative.
RECURSIVE LeBytes(_, _)
LeBytes(x, n) ==
    IF n = 0 THEN <<>> ELSE <<x % 256>> \o LeBytes(x \div 256, n - 1)

\* 2^64 is outside TLC's integers, so a u64, and a usize alike, is carried
\* as its 8-byte pattern, least significant byte first.
u64(n) == LeBytes(n, 8)

\* the pattern holds a number of at most n bytes
u64_fits(p, n) == \A i \in (n + 1)..8 : p[i] = 0

\* the pattern holds a number below 2^31, one TLC can count with
u64_is_int(p) == u64_fits(p, 4) /\ p[4] < 128

\* the number of a pattern below 2^31 (of any pattern, its low 31 bits)
u64_int(p) == p[1] + 256 * p[2] + 65536 * p[3] + 16777216 * (p[4] % 128)

\* n - 1 for the pattern of a number n > 0: the borrow runs up the bytes
RECURSIVE u64_pred(_)
u64_pred(p) ==
    IF p = <<>> THEN <<>>
    ELSE IF Head(p) > 0 THEN <<Head(p) - 1>> \o Tail(p)
    ELSE <<255>> \o u64_pred(Tail(p))

\* n + 1, wrapping: the carry runs up the bytes
RECURSIVE u64_succ(_)
u64_succ(p) ==
    IF p = <<>> THEN <<>>
    ELSE IF Head(p) < 255 THEN <<Head(p) + 1>> \o Tail(p)
    ELSE <<0>> \o u64_succ(Tail(p))

\* u64::wrapping_neg, i64::wrapping_neg: the complement, plus one
wrapping_neg(p) == u64_succ([i \in 1..8 |-> 255 - p[i]])

\* An i64 is carried as its 8-byte two's complement pattern, least
\* significant byte first; i64(n) is the pattern of an integer TLC can count.
i64(n) == LeBytes(n, 8)

\* i64::is_negative
is_negative(p) == p[8] >= 128

\* `x as u64` for an i64 x: the same bit pattern
as_u64(x) == x

\* i64::to_ne_bytes on a little-endian target
i64_to_ne_bytes(x) == x

\* u64::to_ne_bytes on a little-endian target, of a u64 carried as its pattern
u64_to_ne_bytes(p) == p

\* u64::cmp over two 8-byte patterns: most significant byte first.
RECURSIVE CmpFrom(_, _, _)
CmpFrom(a, b, i) ==
    IF i = 0 THEN "Equal"
    ELSE IF a[i] < b[i] THEN "Less"
    ELSE IF a[i] > b[i] THEN "Greater"
    ELSE CmpFrom(a, b, i - 1)

u64_cmp(a, b) == CmpFrom(a, b, 8)

\* i64::cmp: a negative number is below the others, two numbers of one
\* sign compare as their patterns
i64_cmp(a, b) ==
    IF is_negative(a) /\ ~is_negative(b) THEN "Less"
    ELSE IF ~is_negative(a) /\ is_negative(b) THEN "Greater"
    ELSE u64_cmp(a, b)

\* Ord::cmp of two integers TLC can count
prim_cmp(a, b) == IF a < b THEN "Less" ELSE IF a > b THEN "Greater" ELSE "Equal"

----------------------------------------------------------------------------
(* IntValue (value/int.rs).                                                *)

I8_MIN == -128
I8_MAX == 127
U8_MAX == 255

Widths == {8, 16, 32, 64}

\* impl_int_value_from!(iN => Signed): the value keeps its width tag; x is
\* the value widened to i64
FromSigned(w, x) == [signed |-> TRUE, width |-> w, value |-> x]

\* impl_int_value_from!(uN => Unsigned); x is the value widened to u64
FromUnsigned(w, x) == [signed |-> FALSE, width |-> w, value |-> x]

\* `value as uN` of a pointer-sized integer of N bits, widened to u64: the
\* N bits of the value as they are, an isize keeps its bit pattern, and
\* zeros above them
as_unsigned(bits, value) ==
    [i \in 1..8 |-> IF i <= bits \div 8 THEN value[i] ELSE 0]

\* impl_int_value_from_size!: isize and usize alike are cast to the unsigned
\* type of usize::BITS bits and go through From<uN>
from_size(bits, value) == FromUnsigned(bits, as_unsigned(bits, value))

\* SignedIntValue::canonicalized / UnsignedIntValue::canonicalized: the value
\* widened to i64 / u64
canonicalized(v) == v.value

\* SignedIntValue == SignedIntValue, UnsignedIntValue == UnsignedIntValue
inner_eq(l, r) == canonicalized(l) = canonicalized(r)

\* SignedIntValue::cmp, UnsignedIntValue::cmp
inner_cmp(l, r) ==
    IF l.signed THEN i64_cmp(canonicalized(l), canonicalized(r))
    ELSE u64_cmp(canonicalized(l), canonicalized(r))

\* a plausible slip: the derived, width-sensitive comparison
IntValue_eq_derived(l, r) == l = r

\* impl PartialEq for IntValue
IntValue_eq(l, r) ==
    CASE l.signed /\ r.signed -> inner_eq(l, r)
      [] l.signed /\ ~r.signed ->
            LET lhs == canonicalized(l)
                rhs == canonicalized(r)
            IN  IF is_negative(lhs) THEN FALSE ELSE as_u64(lhs) = rhs
      [] ~l.signed /\ r.signed ->
            LET lhs == canonicalized(l)
                rhs == canonicalized(r)
            IN  IF is_negative(rhs) THEN FALSE ELSE lhs = as_u64(rhs)
      [] OTHER -> inner_eq(l, r)

\* a plausible slip: the negative check of the mixed arms dropped
IntValue_cmp_unchecked(l, r) ==
    CASE l.signed = r.signed -> inner_cmp(l, r)
      [] OTHER -> u64_cmp(as_u64(canonicalized(l)), as_u64(canonicalized(r)))

\* impl Ord for IntValue
IntValue_cmp(l, r) ==
    CASE ~l.signed /\ ~r.signed -> inner_cmp(l, r)
      [] l.signed /\ r.signed -> inner_cmp(l, r)
      [] ~l.signed /\ r.signed ->
            LET lhs == canonicalized(l)
                rhs == canonicalized(r)
            IN  IF is_negative(rhs) THEN "Greater"
                ELSE u64_cmp(lhs, as_u64(rhs))
      [] OTHER ->
            LET lhs == canonicalized(l)
                rhs == canonicalized(r)
            IN  IF is_negative(lhs) THEN "Less"
                ELSE u64_cmp(as_u64(lhs), rhs)

\* a plausible slip: the width tag fed to the hasher ahead of the bytes
IntValue_hash_tagged(v) == <<v.width>> \o i64_to_ne_bytes(canonicalized(v))

\* impl Hash for IntValue: the bytes fed to the hasher
IntValue_hash(v) ==
    IF ~v.signed
    THEN u64_to_ne_bytes(canonicalized(v))
    ELSE LET value == canonicalized(v)
         IN  IF is_negative(value)
             THEN i64_to_ne_bytes(value)
             ELSE u64_to_ne_bytes(as_u64(value))

----------------------------------------------------------------------------
(* Wire layout.  marker.rs and the header modules other than header/bool.rs *)
(* are not among the sources; the prefixes below are the assignment that    *)
(* agrees with BoolHeader::TYPE_BITS = 0b0000010 and MASK = 0b0000011: the  *)
(* kind is told by the position of the highest set bit of the header byte.  *)

IntHeader_TYPE_BITS == 128
IntHeader_COMPACT_VARIANT_BIT == 64
IntHeader_SIGNEDNESS_BIT == 32
IntHeader_COMPACT_VALUE_BITS == 31
IntHeader_EXTENDED_WIDTH_EXPONENT_BITS == 3

StringHeader_TYPE_BITS == 64
StringHeader_COMPACT_VARIANT_BIT == 32
StringHeader_COMPACT_LEN_BITS == 31
StringHeader_EXTENDED_LEN_WIDTH_BITS == 7

SeqHeader_TYPE_BITS == 32
SeqHeader_COMPACT_VARIANT_BIT == 16
SeqHeader_COMPACT_LEN_BITS == 7
SeqHeader_EXTENDED_LEN_WIDTH_BITS == 7

MapHeader_TYPE_BITS == 16
MapHeader_COMPACT_VARIANT_BIT == 8
MapHeader_COMPACT_LEN_BITS == 7
MapHeader_EXTENDED_LEN_WIDTH_BITS == 7

FloatHeader_TYPE_BITS == 8
FloatHeader_PRECISION_BIT == 1

BytesHeader_TYPE_BITS == 4
BytesHeader_LEN_WIDTH_EXPONENT_BITS == 3

\* header/bool.rs
BoolHeader_MASK == 3

\* a plausible slip: the type bits placed in the three high bits
BoolHeader_TYPE_BITS_high == 7 * 32

BoolHeader_TYPE_BITS == 2
BoolHeader_VALUE_BIT == 1

UnitHeader_TYPE_BITS == 1
NullHeader_TYPE_BITS == 0

\* Marker::detect: total over the 256 bytes
detect(byte) ==
    IF byte >= IntHeader_TYPE_BITS THEN "Int"
    ELSE IF byte >= StringHeader_TYPE_BITS THEN "String"
    ELSE IF byte >= SeqHeader_TYPE_BITS THEN "Seq"
    ELSE IF byte >= MapHeader_TYPE_BITS THEN "Map"
    ELSE IF byte >= FloatHeader_TYPE_BITS THEN "Float"
    ELSE IF byte >= BytesHeader_TYPE_BITS THEN "Bytes"
    ELSE IF byte >= BoolHeader_TYPE_BITS THEN "Bool"
    ELSE IF byte = UnitHeader_TYPE_BITS THEN "Unit"
    ELSE "Null"

\* Marker::validate(byte): Ok, or the expectation that failed
validate(marker, byte) ==
    IF detect(byte) = marker
    THEN [ok |-> TRUE]
    ELSE [ok |-> FALSE, expected |-> marker, unexpected |-> detect(byte)]

----------------------------------------------------------------------------
(* Headers (header.rs).                                                    *)

IntHeader_compact(is_signed, bits) ==
    [kind |-> "Int", compact |-> TRUE, is_signed |-> is_signed, bits |-> bits]
IntHeader_extended(is_signed, width) ==
    [kind |-> "Int", compact |-> FALSE, is_signed |-> is_signed, width |-> width]
StringHeader_compact(len) == [kind |-> "String", compact |-> TRUE, len |-> len]
StringHeader_extended(len) == [kind |-> "String", compact |-> FALSE, len |-> len]
SeqHeader_compact(len) == [kind |-> "Seq", compact |-> TRUE, len |-> len]
SeqHeader_extended(len) == [kind |-> "Seq", compact |-> FALSE, len |-> len]
MapHeader_compact(len) == [kind |-> "Map", compact |-> TRUE, len |-> len]
MapHeader_extended(len) == [kind |-> "Map", compact |-> FALSE, len |-> len]
FloatHeader_new(width) == [kind |-> "Float", width |-> width]
BytesHeader_for_len(len) == [kind |-> "Bytes", len |-> len]
BoolHeader_new(value) == [kind |-> "Bool", value |-> value]
UnitHeader == [kind |-> "Unit"]
NullHeader == [kind |-> "Null"]

\* Header::marker
Header_marker(header) == header.kind

\* StringHeader::len, SeqHeader::len, MapHeader::len: the u8 of a compact
\* header widened to usize, the usize of an extended one
Header_len(header) == IF header.compact THEN u64(header.len) ELSE header.len

----------------------------------------------------------------------------
(* Reader (io): a buffer and the count of bytes handed out.  A read that    *)
(* asks for more than remains fails and hands out nothing.                 *)

Slice(buf, from, n) == SubSeq(buf, from + 1, from + n)

Remaining(buf, off) == Len(buf) - off

\* Read::peek_one
peek_one(buf, off) ==
    IF Remaining(buf, off) >= 1
    THEN [ok |-> TRUE, off |-> off, val |-> buf[off + 1]]
    ELSE [ok |-> FALSE, off |-> off, val |-> "UnexpectedEndOfFile"]

\* Read::read_one
read_one(buf, off) ==
    IF Remaining(buf, off) >= 1
    THEN [ok |-> TRUE, off |-> off + 1, val |-> buf[off + 1]]
    ELSE [ok |-> FALSE, off |-> off, val |-> "UnexpectedEndOfFile"]

\* Read::read_into(buf): fills n bytes
read_into(buf, off, n) ==
    IF Remaining(buf, off) >= n
    THEN [ok |-> TRUE, off |-> off + n, val |-> Slice(buf, off, n)]
    ELSE [ok |-> FALSE, off |-> off, val |-> "UnexpectedEndOfFile"]

\* Read::read(len, scratch): the slice reader borrows and leaves scratch alone,
\* the streaming reader appends the bytes to scratch and points into it.
\* len is a usize; no buffer of the model holds 2^31 bytes.
read(buf, kind, off, len, scratch) ==
    IF u64_is_int(len) /\ Remaining(buf, off) >= u64_int(len)
    THEN [ok |-> TRUE, off |-> off + u64_int(len),
          val |-> IF kind = "slice"
                  THEN [arm |-> "Borrowed",
                        bytes |-> Slice(buf, off, u64_int(len)),
                        scratch |-> scratch]
                  ELSE [arm |-> "Copied",
                        bytes |-> Slice(buf, off, u64_int(len)),
                        scratch |-> scratch \o Slice(buf, off, u64_int(len))]]
    ELSE [ok |-> FALSE, off |-> off, val |-> "UnexpectedEndOfFile"]

\* Read::skip(len)
skip(buf, off, len) ==
    IF u64_is_int(len) /\ Remaining(buf, off) >= u64_int(len)
    THEN [ok |-> TRUE, off |-> off + u64_int(len), val |-> "unit"]
    ELSE [ok |-> FALSE, off |-> off, val |-> "UnexpectedEndOfFile"]

----------------------------------------------------------------------------
(* Decoder (decoder.rs).  A decoder state d holds the reader's offset and   *)
(* the decoder's own pos; operations return a result carrying the new      *)
(* state.                                                                  *)

NoPos == -1

\* Decoder::from_reader
from_reader == [off |-> 0, pos |-> 0]

Ok(d, v) == [ok |-> TRUE, d |-> d, val |-> v]
Err(d, code, at) == [ok |-> FALSE, d |-> d, val |-> [code |-> code, pos |-> at]]
ErrInvalidType(d, exp, at) ==
    [ok |-> FALSE, d |-> d,
     val |-> [code |-> "InvalidType", pos |-> at,
              expected |-> exp.expected, unexpected |-> exp.unexpected]]

\* the `?` operator: an error returns at once, a success goes on with F
Try(r, F(_)) == IF r.ok THEN F(r) ELSE r

\* a plausible slip: pos counted before the read is known to have succeeded
Pulled_eager(d, r, n) ==
    IF r.ok
    THEN Ok([off |-> r.off, pos |-> d.pos + n], r.val)
    ELSE Err([off |-> r.off, pos |-> d.pos + n], r.val, NoPos)

\* the decoder's result for a reader call that handed out n bytes to a
\* caller that then does `self.pos += n`
Pulled(d, r, n) ==
    IF r.ok
    THEN Ok([off |-> r.off, pos |-> d.pos + n], r.val)
    ELSE Err([d EXCEPT !.off = r.off], r.val, NoPos)

\* Decoder::peek_byte
peek_byte(buf, d) == Pulled(d, peek_one(buf, d.off), 0)

\* Decoder::peek_marker
peek_marker(buf, d) ==
    Try(peek_byte(buf, d), LAMBDA r : Ok(r.d, detect(r.val)))

\* Decoder::pull_byte
pull_byte(buf, d) == Pulled(d, read_one(buf, d.off), 1)

\* a plausible slip: the two marker names handed over in the other order
Expecting_swapped(r, exp, at) ==
    IF exp.ok THEN Ok(r.d, r.val)
    ELSE ErrInvalidType(r.d, [expected |-> exp.unexpected,
                              unexpected |-> exp.expected], at)

\* marker.validate(byte).map_err(..)?; Ok(byte)
Expecting(r, exp, at) ==
    IF exp.ok THEN Ok(r.d, r.val) ELSE ErrInvalidType(r.d, exp, at)

\* Decoder::pull_byte_expecting
pull_byte_expecting(buf, d, marker) ==
    Try(pull_byte(buf, d), LAMBDA r : Expecting(r, validate(marker, r.val), d.pos))

\* Decoder::pull_bytes_into, for a buffer of n bytes
pull_bytes_into(buf, d, n) ==
    IF n = 0 THEN Ok(d, <<>>) ELSE Pulled(d, read_into(buf, d.off, n), n)

\* Decoder::pull_bytes
pull_bytes(buf, kind, d, len, scratch) ==
    Pulled(d, read(buf, kind, d.off, len, scratch), u64_int(len))

\* u64::from_be_bytes of the length bytes, right-aligned and zero-padded:
\* the last byte is the least significant.  The u64 is carried as its
\* pattern (u64 above): 2^32 is <<0, 0, 0, 0, 1, 0, 0, 0>>.
from_be_bytes(b) == [i \in 1..8 |-> IF i <= Len(b) THEN b[Len(b) + 1 - i] ELSE 0]

\* the pointer widths the model builds for: a 16-bit and a 64-bit target
Targets == {16, 64}

\* usize::try_from(u64): fails when the number needs more than usize::BITS
\* bits
fits_usize(n) == u64_fits(n, usize_bits \div 8)

MAX_WIDTH == 8

\* a plausible slip: the u64 cast to usize without the check
Converted_unchecked(d, len, at) == Ok(d, len)

\* u64::from_be_bytes(padded_be_bytes).try_into().map_err(..)
Converted(d, len, at) ==
    IF fits_usize(len) THEN Ok(d, len) ELSE Err(d, "NumberOutOfRange", at)

\* Decoder::pull_len_bytes
pull_len_bytes(buf, d, width) ==
    Try(pull_bytes_into(buf, d, width),
        LAMBDA r : Converted(r.d,
                       from_be_bytes([i \in 1..(MAX_WIDTH - width) |-> 0] \o r.val),
                       d.pos))

----------------------------------------------------------------------------
(* Header decoding.                                                        *)

\* the result r with its payload replaced by v (`.map(..)`, `Ok(..)`)
With(r, v) == Ok(r.d, v)

\* Decoder::decode_int_header
decode_int_header(buf, d) ==
    Try(pull_byte_expecting(buf, d, "Int"),
        LAMBDA r :
            IF BitAnd(r.val, IntHeader_COMPACT_VARIANT_BIT) # 0
            THEN With(r, IntHeader_compact(
                     BitAnd(r.val, IntHeader_SIGNEDNESS_BIT) # 0,
                     BitAnd(r.val, IntHeader_COMPACT_VALUE_BITS)))
            ELSE With(r, IntHeader_extended(
                     BitAnd(r.val, IntHeader_SIGNEDNESS_BIT) # 0,
                     2^BitAnd(r.val, IntHeader_EXTENDED_WIDTH_EXPONENT_BITS))))

\* Decoder::decode_string_header
decode_string_header(buf, d) ==
    Try(pull_byte_expecting(buf, d, "String"),
        LAMBDA r :
            IF BitAnd(r.val, StringHeader_COMPACT_VARIANT_BIT) # 0
            THEN With(r, StringHeader_compact(
                     BitAnd(r.val, StringHeader_COMPACT_LEN_BITS)))
            ELSE Try(pull_len_bytes(buf, r.d,
                         1 + BitAnd(r.val, StringHeader_EXTENDED_LEN_WIDTH_BITS)),
                     LAMBDA l : With(l, StringHeader_extended(l.val))))

\* a plausible slip: the extended width read as a power of two
decode_seq_header_pow2(buf, d) ==
    Try(pull_byte_expecting(buf, d, "Seq"),
        LAMBDA r :
            IF BitAnd(r.val, SeqHeader_COMPACT_VARIANT_BIT) # 0
            THEN With(r, SeqHeader_compact(
                     BitAnd(r.val, SeqHeader_COMPACT_LEN_BITS)))
            ELSE Try(pull_len_bytes(buf, r.d,
                         2^BitAnd(r.val, SeqHeader_EXTENDED_LEN_WIDTH_BITS)),
                     LAMBDA l : With(l, SeqHeader_extended(l.val))))

\* Decoder::decode_seq_header
decode_seq_header(buf, d) ==
    Try(pull_byte_expecting(buf, d, "Seq"),
        LAMBDA r :
            IF BitAnd(r.val, SeqHeader_COMPACT_VARIANT_BIT) # 0
            THEN With(r, SeqHeader_compact(
                     BitAnd(r.val, SeqHeader_COMPACT_LEN_BITS)))
            ELSE Try(pull_len_bytes(buf, r.d,
                         1 + BitAnd(r.val, SeqHeader_EXTENDED_LEN_WIDTH_BITS)),
                     LAMBDA l : With(l, SeqHeader_extended(l.val))))

\* Decoder::decode_map_header
decode_map_header(buf, d) ==
    Try(pull_byte_expecting(buf, d, "Map"),
        LAMBDA r :
            IF BitAnd(r.val, MapHeader_COMPACT_VARIANT_BIT) # 0
            THEN With(r, MapHeader_compact(
                     BitAnd(r.val, MapHeader_COMPACT_LEN_BITS)))
            ELSE Try(pull_len_bytes(buf, r.d,
                         1 + BitAnd(r.val, MapHeader_EXTENDED_LEN_WIDTH_BITS)),
                     LAMBDA l : With(l, MapHeader_extended(l.val))))

\* Decoder::decode_float_header
decode_float_header(buf, d) ==
    Try(pull_byte_expecting(buf, d, "Float"),
        LAMBDA r : With(r, FloatHeader_new(
            IF BitAnd(r.val, FloatHeader_PRECISION_BIT) # 0 THEN 8 ELSE 4)))

\* Decoder::decode_bytes_header
decode_bytes_header(buf, d) ==
    Try(pull_byte_expecting(buf, d, "Bytes"),
        LAMBDA r :
            Try(pull_len_bytes(buf, r.d,
                    2^BitAnd(r.val, BytesHeader_LEN_WIDTH_EXPONENT_BITS)),
                LAMBDA l : With(l, BytesHeader_for_len(l.val))))

\* Decoder::decode_bool_header
decode_bool_header(buf, d) ==
    Try(pull_byte_expecting(buf, d, "Bool"),
        LAMBDA r : With(r, BoolHeader_new(BitAnd(r.val, BoolHeader_VALUE_BIT) # 0)))

\* Decoder::decode_unit_header
decode_unit_header(buf, d) ==
    Try(pull_byte_expecting(buf, d, "Unit"), LAMBDA r : With(r, UnitHeader))

\* Decoder::decode_null_header
decode_null_header(buf, d) ==
    Try(pull_byte_expecting(buf, d, "Null"), LAMBDA r : With(r, NullHeader))

\* a plausible slip: arms of the dispatch exchanged
decode_header_swapped(buf, d) ==
    Try(peek_marker(buf, d),
        LAMBDA m :
            CASE m.val = "Int" -> decode_int_header(buf, d)
              [] m.val = "String" -> decode_string_header(buf, d)
              [] m.val = "Seq" -> decode_map_header(buf, d)
              [] m.val = "Map" -> decode_seq_header(buf, d)
              [] m.val = "Float" -> decode_float_header(buf, d)
              [] m.val = "Bytes" -> decode_bytes_header(buf, d)
              [] m.val = "Bool" -> decode_unit_header(buf, d)
              [] m.val = "Unit" -> decode_bool_header(buf, d)
              [] OTHER -> decode_null_header(buf, d))

\* Decoder::decode_header
decode_header(buf, d) ==
    Try(peek_marker(buf, d),
        LAMBDA m :
            CASE m.val = "Int" -> decode_int_header(buf, d)
              [] m.val = "String" -> decode_string_header(buf, d)
              [] m.val = "Seq" -> decode_seq_header(buf, d)
              [] m.val = "Map" -> decode_map_header(buf, d)
              [] m.val = "Float" -> decode_float_header(buf, d)
              [] m.val = "Bytes" -> decode_bytes_header(buf, d)
              [] m.val = "Bool" -> decode_bool_header(buf, d)
              [] m.val = "Unit" -> decode_unit_header(buf, d)
              [] OTHER -> decode_null_header(buf, d))

----------------------------------------------------------------------------
(* Header encoding (encoder).  Only encoder/bool.rs is among the sources;   *)
(* the other kinds are written as the inverse of the decoder above.         *)

\* the n low-order bytes of the u64 x, most significant first
to_be_bytes(x, n) == [i \in 1..n |-> x[n + 1 - i]]

\* the fewest bytes among 1, 2, 4, 8 that hold the u64 len
len_width_for(len) ==
    IF u64_fits(len, 1) THEN 1
    ELSE IF u64_fits(len, 2) THEN 2
    ELSE IF u64_fits(len, 4) THEN 4 ELSE 8

\* the exponent e with 2^e = width
exponent_of(width) ==
    CASE width = 1 -> 0 [] width = 2 -> 1 [] width = 4 -> 2 [] OTHER -> 3

\* Encoder::encode_int_header
encode_int_header(header) ==
    LET sign == bits_if(IntHeader_SIGNEDNESS_BIT, header.is_signed)
    IN  IF header.compact
        THEN <<BitOr(BitOr(IntHeader_TYPE_BITS, IntHeader_COMPACT_VARIANT_BIT),
                     BitOr(sign, header.bits))>>
        ELSE <<BitOr(IntHeader_TYPE_BITS, BitOr(sign, exponent_of(header.width)))>>

\* the header of a length-prefixed kind whose extended form stores width - 1
encode_len_header(type_bits, variant_bit, header) ==
    IF header.compact
    THEN <<BitOr(BitOr(type_bits, variant_bit), header.len)>>
    ELSE LET width == len_width_for(header.len)
         IN  <<BitOr(type_bits, width - 1)>> \o to_be_bytes(header.len, width)

\* Encoder::encode_string_header
encode_string_header(header) ==
    encode_len_header(StringHeader_TYPE_BITS, StringHeader_COMPACT_VARIANT_BIT,
                      header)

\* Encoder::encode_seq_header
encode_seq_header(header) ==
    encode_len_header(SeqHeader_TYPE_BITS, SeqHeader_COMPACT_VARIANT_BIT, header)

\* Encoder::encode_map_header
encode_map_header(header) ==
    encode_len_header(MapHeader_TYPE_BITS, MapHeader_COMPACT_VARIANT_BIT, header)

\* Encoder::encode_float_header
encode_float_header(header) ==
    <<BitOr(FloatHeader_TYPE_BITS,
            bits_if(FloatHeader_PRECISION_BIT, header.width = 8))>>

\* Encoder::encode_bytes_header
encode_bytes_header(header) ==
    LET width == len_width_for(header.len)
    IN  <<BitOr(BytesHeader_TYPE_BITS, exponent_of(width))>>
            \o to_be_bytes(header.len, width)

\* a plausible slip: the value bit set when the value is false
encode_bool_header_inverted(header) ==
    <<BitOr(BoolHeader_TYPE_BITS, bits_if(BoolHeader_VALUE_BIT, ~header.value))>>

\* Encoder::encode_bool_header: the byte pushed to the writer
encode_bool_header(header) ==
    <<BitOr(BoolHeader_TYPE_BITS, bits_if(BoolHeader_VALUE_BIT, header.value))>>

\* Encoder::header_for_bool
header_for_bool(value) == BoolHeader_new(value)

\* Encoder::encode_bool
encode_bool(value) == encode_bool_header(header_for_bool(value))

\* Encoder::encode_bool_value: value.0 of a BoolValue
encode_bool_value(value) == encode_bool(value.value)

\* Encoder::encode_unit_header, Encoder::encode_null_header
encode_unit_header == <<UnitHeader_TYPE_BITS>>
encode_null_header == <<NullHeader_TYPE_BITS>>

\* Encoder::encode_header
encode_header(header) ==
    CASE header.kind = "Int" -> encode_int_header(header)
      [] header.kind = "String" -> encode_string_header(header)
      [] header.kind = "Seq" -> encode_seq_header(header)
      [] header.kind = "Map" -> encode_map_header(header)
      [] header.kind = "Float" -> encode_float_header(header)
      [] header.kind = "Bytes" -> encode_bytes_header(header)
      [] header.kind = "Bool" -> encode_bool_header(header)
      [] header.kind = "Unit" -> encode_unit_header
      [] OTHER -> encode_null_header

----------------------------------------------------------------------------
(* Values (value).                                                         *)

IntValue(v) == [kind |-> "Int", int |-> v]
StringValue(bytes) == [kind |-> "String", bytes |-> bytes]
SeqValue(items) == [kind |-> "Seq", items |-> items]
MapValue(entries) == [kind |-> "Map", entries |-> entries]
FloatValue(width, bits) == [kind |-> "Float", width |-> width, bits |-> bits]
BytesValue(bytes) == [kind |-> "Bytes", bytes |-> bytes]
BoolValue(value) == [kind |-> "Bool", value |-> value]
UnitValue == [kind |-> "Unit"]
NullValue == [kind |-> "Null"]

\* Value == Value: structural, with IntValue compared by IntValue::eq
RECURSIVE Value_eq(_, _)
Value_eq(a, b) ==
    IF a.kind # b.kind THEN FALSE
    ELSE CASE a.kind = "Int" -> IntValue_eq(a.int, b.int)
           [] a.kind = "Seq" ->
                 /\ Len(a.items) = Len(b.items)
                 /\ \A i \in 1..Len(a.items) : Value_eq(a.items[i], b.items[i])
           [] a.kind = "Map" ->
                 /\ Len(a.entries) = Len(b.entries)
                 /\ \A i \in 1..Len(a.entries) :
                       /\ Value_eq(a.entries[i][1], b.entries[i][1])
                       /\ Value_eq(a.entries[i][2], b.entries[i][2])
           [] OTHER -> a = b

\* the i64 x is in the range of the signed type of n bytes: the bytes above
\* the n-th repeat its sign
i64_fits(x, n) ==
    /\ \A i \in (n + 1)..8 : x[i] = IF is_negative(x) THEN 255 ELSE 0
    /\ (x[n] >= 128) = is_negative(x)

\* the narrowest width tag that holds x
signed_width(x) ==
    IF i64_fits(x, 1) THEN 8
    ELSE IF i64_fits(x, 2) THEN 16
    ELSE IF i64_fits(x, 4) THEN 32 ELSE 64
unsigned_width(x) ==
    IF u64_fits(x, 1) THEN 8
    ELSE IF u64_fits(x, 2) THEN 16
    ELSE IF u64_fits(x, 4) THEN 32 ELSE 64

\* str::from_utf8: the model's strings are ASCII, any byte >= 0x80 is taken
\* as an invalid sequence
is_utf8(bytes) == \A i \in 1..Len(bytes) : bytes[i] < 128

----------------------------------------------------------------------------
(* Value encoding (encoder).                                               *)

\* EncoderConfig
Configs == [force_extended_lengths : BOOLEAN]

\* the sign of an IntValue: set for a Signed below zero
is_minus(v) == v.signed /\ is_negative(canonicalized(v))

\* the magnitude of an IntValue, a u64: i64::unsigned_abs of a Signed
magnitude(v) ==
    IF is_minus(v) THEN wrapping_neg(canonicalized(v)) ELSE canonicalized(v)

\* Encoder::header_for_int: compact when the magnitude fits the value bits
header_for_int(v) ==
    LET m == magnitude(v)
    IN  IF u64_fits(m, 1) /\ m[1] <= IntHeader_COMPACT_VALUE_BITS
        THEN IntHeader_compact(is_minus(v), m[1])
        ELSE IntHeader_extended(is_minus(v), len_width_for(m))

\* Encoder::encode_int_value: header, then the big-endian magnitude
encode_int_value(v) ==
    LET header == header_for_int(v)
    IN  encode_int_header(header) \o
            (IF header.compact THEN <<>>
             ELSE to_be_bytes(magnitude(v), header.width))

\* Encoder::header_for_{string,seq,map}_len
header_for_len(kind, compact_max, len, cfg) ==
    IF ~cfg.force_extended_lengths /\ len <= compact_max
    THEN [kind |-> kind, compact |-> TRUE, len |-> len]
    ELSE [kind |-> kind, compact |-> FALSE, len |-> u64(len)]

RECURSIVE encode_value(_, _)
RECURSIVE encode_items(_, _)
RECURSIVE encode_entries(_, _)

\* the items of a sequence, in order
encode_items(items, cfg) ==
    IF items = <<>> THEN <<>>
    ELSE encode_value(Head(items), cfg) \o encode_items(Tail(items), cfg)

\* the entries of a map: key, value, key, value, ...
encode_entries(entries, cfg) ==
    IF entries = <<>> THEN <<>>
    ELSE encode_value(Head(entries)[1], cfg)
            \o encode_value(Head(entries)[2], cfg)
            \o encode_entries(Tail(entries), cfg)

\* Encoder::encode_value
encode_value(v, cfg) ==
    CASE v.kind = "Int" -> encode_int_value(v.int)
      [] v.kind = "String" ->
            encode_string_header(header_for_len("String",
                StringHeader_COMPACT_LEN_BITS, Len(v.bytes), cfg)) \o v.bytes
      [] v.kind = "Seq" ->
            encode_seq_header(header_for_len("Seq",
                SeqHeader_COMPACT_LEN_BITS, Len(v.items), cfg))
                \o encode_items(v.items, cfg)
      [] v.kind = "Map" ->
            encode_map_header(header_for_len("Map",
                MapHeader_COMPACT_LEN_BITS, Len(v.entries), cfg))
                \o encode_entries(v.entries, cfg)
      [] v.kind = "Float" ->
            encode_float_header(FloatHeader_new(v.width)) \o v.bits
      [] v.kind = "Bytes" ->
            encode_bytes_header(BytesHeader_for_len(u64(Len(v.bytes)))) \o v.bytes
      [] v.kind = "Bool" -> encode_bool(v.value)
      [] v.kind = "Unit" -> encode_unit_header
      [] OTHER -> encode_null_header

----------------------------------------------------------------------------
(* Value decoding and skipping (decoder.rs, decoder/bytes.rs,              *)
(* decoder/seq.rs).  kind is the reader's kind.                            *)

\* the IntValue of a sign and a magnitude m, a u64, at its narrowest width
int_of(is_signed, m) ==
    IF is_signed
    THEN FromSigned(signed_width(wrapping_neg(m)), wrapping_neg(m))
    ELSE FromUnsigned(unsigned_width(m), m)

\* the magnitude of a negative number is at most 2^63
in_range(is_signed, m) ==
    is_signed => (~is_negative(m) \/ m = wrapping_neg(m))

\* Decoder::decode_int_value_of
decode_int_value_of(buf, d, header) ==
    IF header.compact
    THEN Ok(d, int_of(header.is_signed, u64(header.bits)))
    ELSE Try(pull_bytes_into(buf, d, header.width),
             LAMBDA r :
                 IF in_range(header.is_signed, from_be_bytes(r.val))
                 THEN With(r, int_of(header.is_signed, from_be_bytes(r.val)))
                 ELSE Err(r.d, "NumberOutOfRange", d.pos))

\* Decoder::skip_int_value_of
skip_int_value_of(buf, d, header) ==
    IF header.compact THEN Ok(d, "unit")
    ELSE Try(pull_bytes_into(buf, d, header.width), LAMBDA r : With(r, "unit"))

\* Decoder::decode_string_value_of
decode_string_value_of(buf, kind, d, header) ==
    Try(pull_bytes(buf, kind, d, Header_len(header), <<>>),
        LAMBDA r : IF is_utf8(r.val.bytes)
                   THEN With(r, r.val.bytes)
                   ELSE Err(r.d, "InvalidUtf8", d.pos))

\* Decoder::skip_string_value_of
skip_string_value_of(buf, kind, d, header) ==
    Try(pull_bytes(buf, kind, d, Header_len(header), <<>>),
        LAMBDA r : With(r, "unit"))

\* Decoder::decode_float_value_of
decode_float_value_of(buf, d, header) ==
    Try(pull_bytes_into(buf, d, header.width),
        LAMBDA r : With(r, FloatValue(header.width, r.val)))

\* Decoder::skip_float_value_of
skip_float_value_of(buf, d, header) ==
    Try(pull_bytes_into(buf, d, header.width), LAMBDA r : With(r, "unit"))

\* a plausible slip: the bytes always copied into scratch
decode_bytes_of_copied(buf, kind, d, header, scratch) ==
    Try(pull_bytes(buf, kind, d, header.len, scratch),
        LAMBDA r : IF r.val.arm = "Borrowed"
                   THEN With(r, [arm |-> "Copied", bytes |-> r.val.bytes,
                                 scratch |-> scratch \o r.val.bytes])
                   ELSE r)

\* Decoder::decode_bytes_of
decode_bytes_of(buf, kind, d, header, scratch) ==
    pull_bytes(buf, kind, d, header.len, scratch)

\* Decoder::decode_bytes
decode_bytes(buf, kind, d, scratch) ==
    Try(decode_bytes_header(buf, d),
        LAMBDA h : decode_bytes_of(buf, kind, h.d, h.val, scratch))

\* a plausible slip: the slice appended in the Copied arm as well
decode_bytes_buf_of_dup(buf, kind, d, header) ==
    Try(decode_bytes_of(buf, kind, d, header, <<>>),
        LAMBDA r : With(r, r.val.scratch \o r.val.bytes))

\* a plausible slip: the borrowed slice never copied into the buffer
decode_bytes_buf_of_lost(buf, kind, d, header) ==
    Try(decode_bytes_of(buf, kind, d, header, <<>>),
        LAMBDA r : With(r, r.val.scratch))

\* Decoder::decode_bytes_buf_of: buf is the scratch handed to decode_bytes_of
decode_bytes_buf_of(buf, kind, d, header) ==
    Try(decode_bytes_of(buf, kind, d, header, <<>>),
        LAMBDA r : IF r.val.arm = "Borrowed"
                   THEN With(r, r.val.scratch \o r.val.bytes)
                   ELSE With(r, r.val.scratch))

\* Decoder::decode_bytes_buf
decode_bytes_buf(buf, kind, d) ==
    Try(decode_bytes_header(buf, d),
        LAMBDA h : decode_bytes_buf_of(buf, kind, h.d, h.val))

\* Decoder::decode_bytes_value_of
decode_bytes_value_of(buf, kind, d, header) ==
    Try(decode_bytes_buf_of(buf, kind, d, header),
        LAMBDA r : With(r, BytesValue(r.val)))

\* Decoder::decode_bytes_value: decode_bytes_buf().map(From::from)
decode_bytes_value(buf, kind, d) ==
    Try(decode_bytes_buf(buf, kind, d), LAMBDA r : With(r, BytesValue(r.val)))

\* the decoder's result for self.reader.skip(..): self.pos is not touched
Skipped(d, r) ==
    IF r.ok
    THEN Ok([d EXCEPT !.off = r.off], "unit")
    ELSE Err([d EXCEPT !.off = r.off], r.val, NoPos)

\* Decoder::skip_bytes_value_of
skip_bytes_value_of(buf, d, header) == Skipped(d, skip(buf, d.off, header.len))

\* Decoder::decode_bool_value_of
decode_bool_value_of(d, header) == Ok(d, header.value)

RECURSIVE skip_value(_, _, _)
RECURSIVE skip_value_of(_, _, _, _)
RECURSIVE skip_values(_, _, _, _)
RECURSIVE skip_entries(_, _, _, _)
RECURSIVE decode_value(_, _, _)
RECURSIVE decode_value_of(_, _, _, _)
RECURSIVE decode_values(_, _, _, _, _)
RECURSIVE decode_values_lenient(_, _, _, _, _)
RECURSIVE decode_pairs(_, _, _, _, _)

\* for _ in 0..len { self.skip_value()?; }
skip_values(buf, kind, d, len) ==
    IF len = u64(0) THEN Ok(d, "unit")
    ELSE Try(skip_value(buf, kind, d),
             LAMBDA r : skip_values(buf, kind, r.d, u64_pred(len)))

\* Decoder::skip_seq_value_of
skip_seq_value_of(buf, kind, d, header) ==
    skip_values(buf, kind, d, Header_len(header))

\* the entries of a map skipped: a key, then its value
skip_entries(buf, kind, d, len) ==
    IF len = u64(0) THEN Ok(d, "unit")
    ELSE Try(skip_value(buf, kind, d),
             LAMBDA k :
                 Try(skip_value(buf, kind, k.d),
                     LAMBDA v : skip_entries(buf, kind, v.d, u64_pred(len))))

\* Decoder::skip_map_value_of
skip_map_value_of(buf, kind, d, header) ==
    skip_entries(buf, kind, d, Header_len(header))

\* Decoder::skip_value_of
skip_value_of(buf, kind, d, header) ==
    CASE header.kind = "Int" -> skip_int_value_of(buf, d, header)
      [] header.kind = "String" -> skip_string_value_of(buf, kind, d, header)
      [] header.kind = "Seq" -> skip_seq_value_of(buf, kind, d, header)
      [] header.kind = "Map" -> skip_map_value_of(buf, kind, d, header)
      [] header.kind = "Float" -> skip_float_value_of(buf, d, header)
      [] header.kind = "Bytes" -> skip_bytes_value_of(buf, d, header)
      [] OTHER -> Ok(d, "unit")

\* Decoder::skip_value
skip_value(buf, kind, d) ==
    Try(decode_header(buf, d), LAMBDA h : skip_value_of(buf, kind, h.d, h.val))

\* a failed child ends the loop with what was decoded so far
Lenient(r, seq, F(_)) == IF r.ok THEN F(r) ELSE Ok(r.d, seq)

\* a plausible slip: a child's error swallowed, the partial sequence returned
decode_values_lenient(buf, kind, d, len, seq) ==
    IF len = u64(0) THEN Ok(d, seq)
    ELSE Lenient(decode_value(buf, kind, d), seq,
                 LAMBDA r : decode_values_lenient(buf, kind, r.d, u64_pred(len),
                                                  Append(seq, r.val)))

\* for _ in 0..header.len() { seq.push(self.decode_value()?) }
decode_values(buf, kind, d, len, seq) ==
    IF len = u64(0) THEN Ok(d, seq)
    ELSE Try(decode_value(buf, kind, d),
             LAMBDA r : decode_values(buf, kind, r.d, u64_pred(len),
                                      Append(seq, r.val)))

\* Decoder::decode_seq_of
decode_seq_of(buf, kind, d, header) ==
    decode_values(buf, kind, d, Header_len(header), <<>>)

\* Decoder::decode_seq_value_of
decode_seq_value_of(buf, kind, d, header) ==
    Try(decode_seq_of(buf, kind, d, header), LAMBDA r : With(r, SeqValue(r.val)))

\* Decoder::decode_seq
decode_seq(buf, kind, d) ==
    Try(decode_seq_header(buf, d), LAMBDA h : decode_seq_of(buf, kind, h.d, h.val))

\* Decoder::decode_seq_value
decode_seq_value(buf, kind, d) ==
    Try(decode_seq_header(buf, d),
        LAMBDA h : decode_seq_value_of(buf, kind, h.d, h.val))

\* the entries of a map: a key, then its value
decode_pairs(buf, kind, d, len, entries) ==
    IF len = u64(0) THEN Ok(d, entries)
    ELSE Try(decode_value(buf, kind, d),
             LAMBDA k :
                 Try(decode_value(buf, kind, k.d),
                     LAMBDA v : decode_pairs(buf, kind, v.d, u64_pred(len),
                                    Append(entries, <<k.val, v.val>>))))

\* Decoder::decode_map_value_of
decode_map_value_of(buf, kind, d, header) ==
    Try(decode_pairs(buf, kind, d, Header_len(header), <<>>),
        LAMBDA r : With(r, MapValue(r.val)))

\* Decoder::decode_value_of
decode_value_of(buf, kind, d, header) ==
    CASE header.kind = "Int" ->
            Try(decode_int_value_of(buf, d, header),
                LAMBDA r : With(r, IntValue(r.val)))
      [] header.kind = "String" ->
            Try(decode_string_value_of(buf, kind, d, header),
                LAMBDA r : With(r, StringValue(r.val)))
      [] header.kind = "Seq" -> decode_seq_value_of(buf, kind, d, header)
      [] header.kind = "Map" -> decode_map_value_of(buf, kind, d, header)
      [] header.kind = "Float" -> decode_float_value_of(buf, d, header)
      [] header.kind = "Bytes" -> decode_bytes_value_of(buf, kind, d, header)
      [] header.kind = "Bool" ->
            Try(decode_bool_value_of(d, header),
                LAMBDA r : With(r, BoolValue(r.val)))
      [] header.kind = "Unit" -> Ok(d, UnitValue)
      [] OTHER -> Ok(d, NullValue)

\* Decoder::decode_value
decode_value(buf, kind, d) ==
    Try(decode_header(buf, d), LAMBDA h : decode_value_of(buf, kind, h.d, h.val))

\* Decoder::decode_int_value
decode_int_value(buf, d) ==
    Try(decode_int_header(buf, d),
        LAMBDA h : decode_int_value_of(buf, h.d, h.val))

----------------------------------------------------------------------------
(* Decoder runs: a value is encoded, a decoder is made over the bytes by   *)
(* from_reader and the public operations are applied one after another,    *)
(* after a call that failed as after one that succeeded.                   *)

ByteSamples == {42, 255}

RECURSIVE SeqsUpTo(_, _)
SeqsUpTo(S, n) ==
    IF n = 0 THEN {<<>>}
    ELSE LET shorter == SeqsUpTo(S, n - 1)
         IN  shorter \cup {Append(q, x) : q \in shorter, x \in S}

BytesSamples == {BytesValue(b) : b \in SeqsUpTo(ByteSamples, MaxBytesLen)}

IntSamples ==
    {IntValue(FromSigned(8, i64(x))) : x \in {-128, -32, -31, -1, 0, 31}}
        \cup {IntValue(FromUnsigned(8, u64(x))) : x \in {1, 32, 255}}
        \cup {IntValue(FromSigned(32, i64(x))) : x \in {-65536, -256, 65535}}
        \cup {IntValue(FromUnsigned(64, u64(x))) : x \in {256, 65536}}

LeafSamples ==
    IntSamples \cup BytesSamples
        \cup {BoolValue(b) : b \in BOOLEAN}
        \cup {UnitValue, NullValue}
        \cup {StringValue(<<>>), StringValue(<<104, 105>>)}
        \cup {FloatValue(4, <<63, 128, 0, 0>>),
              FloatValue(8, <<127, 248, 0, 0, 0, 0, 0, 1>>)}

ItemSamples ==
    {BoolValue(TRUE), IntValue(FromUnsigned(8, u64(42))), IntValue(FromSigned(16, i64(-300))),
     BytesValue(<<42>>), BytesValue(<<>>)}

SeqSamples == {SeqValue(q) : q \in SeqsUpTo(ItemSamples, MaxSeqLen)}

NestedSamples ==
    {SeqValue(q) :
        q \in SeqsUpTo({SeqValue(<<BytesValue(<<42, 255>>), BoolValue(FALSE)>>),
                        SeqValue(<<>>), BytesValue(<<255>>)}, MaxSeqLen)}
        \cup {SeqValue([i \in 1..(SeqHeader_COMPACT_LEN_BITS + 1) |-> NullValue])}
        \cup {MapValue(<<>>),
              MapValue(<<<<IntValue(FromUnsigned(8, u64(1))),
                           SeqValue(<<BoolValue(TRUE), BoolValue(FALSE)>>)>>>>),
              MapValue(<<<<StringValue(<<104, 105>>), BytesValue(<<42>>)>>,
                         <<UnitValue, NullValue>>>>)}

ValueSamples == LeafSamples \cup SeqSamples \cup NestedSamples

Init ==
    /\ src \in [value : ValueSamples, config : Configs]
    /\ input = encode_value(src.value, src.config)
    /\ readerKind \in {"slice", "stream"}
    /\ usize_bits = 64
    /\ offset = 0
    /\ pos = 0
    /\ op = "init"
    /\ res = [ok |-> TRUE, val |-> "none", start |-> from_reader, clean |-> TRUE]

\* the decoder as the state holds it
Decoder == [off |-> offset, pos |-> pos]

\* The state after an operation that returned r.  A failed call ends the
\* call only: the decoder keeps no error state and the next call runs on
\* what the failed one left.  `clean` records that no call of the run has
\* failed so far; it is a record of the run, not a field of Decoder.
Apply(name, r) ==
    /\ op' = name
    /\ res' = [ok |-> r.ok, val |-> r.val, start |-> Decoder,
               clean |-> res.clean /\ r.ok]
    /\ offset' = r.d.off
    /\ pos' = r.d.pos
    /\ UNCHANGED <<src, input, readerKind, usize_bits>>

PeekMarker ==
    Apply("peek_marker", peek_marker(input, Decoder))

DecodeHeader ==
    Apply("decode_header", decode_header(input, Decoder))

DecodeValue ==
    Apply("decode_value", decode_value(input, readerKind, Decoder))

\* decode_value_of, with the header the preceding decode_header returned
DecodeValueOf ==
    /\ op = "decode_header" /\ res.ok
    /\ Apply("decode_value_of",
             decode_value_of(input, readerKind, Decoder, res.val))

SkipValue ==
    Apply("skip_value", skip_value(input, readerKind, Decoder))

\* skip_value_of, with the header the preceding decode_header returned
SkipValueOf ==
    /\ op = "decode_header" /\ res.ok
    /\ Apply("skip_value_of", skip_value_of(input, readerKind, Decoder, res.val))

\* decode_bytes with a fresh scratch
DecodeBytes ==
    Apply("decode_bytes", decode_bytes(input, readerKind, Decoder, <<>>))

DecodeSeq ==
    Apply("decode_seq", decode_seq(input, readerKind, Decoder))

DecodeSeqValue ==
    Apply("decode_seq_value", decode_seq_value(input, readerKind, Decoder))

DecodeBytesValue ==
    Apply("decode_bytes_value", decode_bytes_value(input, readerKind, Decoder))

Next ==
    \/ PeekMarker
    \/ DecodeHeader
    \/ DecodeValue
    \/ DecodeValueOf
    \/ SkipValue
    \/ SkipValueOf
    \/ DecodeBytes
    \/ DecodeSeq
    \/ DecodeSeqValue
    \/ DecodeBytesValue

Spec == Init /\ [][Next]_vars

----------------------------------------------------------------------------
(* Header runs: a header is written by encode_header (a bool also by       *)
(* encode_bool) and read back by decode_header over a fresh decoder, as in  *)
(* the encode_decode_roundtrip tests of header.rs and header/bool.rs.       *)

\* lengths around the edges where the width of the length changes
LenSamples ==
    {u64(n) : n \in (0..Spread) \cup ((256 - Spread)..(256 + Spread))
                        \cup ((65536 - Spread)..(65536 + Spread))}
        \cup {<<255, 255, 255, 255, 0, 0, 0, 0>>, <<0, 0, 0, 0, 1, 0, 0, 0>>,
              <<0, 0, 0, 128, 0, 0, 0, 0>>, <<1, 0, 0, 0, 0, 0, 0, 128>>,
              <<255, 255, 255, 255, 255, 255, 255, 255>>}

HeaderSamples ==
    {IntHeader_compact(s, b) :
        s \in BOOLEAN,
        b \in (0..Spread) \cup ((IntHeader_COMPACT_VALUE_BITS - Spread)
                                    ..IntHeader_COMPACT_VALUE_BITS)}
        \cup {IntHeader_extended(s, w) : s \in BOOLEAN, w \in {1, 2, 4, 8}}
        \cup {StringHeader_compact(n) : n \in 0..StringHeader_COMPACT_LEN_BITS}
        \cup {StringHeader_extended(n) : n \in LenSamples}
        \cup {SeqHeader_compact(n) : n \in 0..SeqHeader_COMPACT_LEN_BITS}
        \cup {SeqHeader_extended(n) : n \in LenSamples}
        \cup {MapHeader_compact(n) : n \in 0..MapHeader_COMPACT_LEN_BITS}
        \cup {MapHeader_extended(n) : n \in LenSamples}
        \cup {FloatHeader_new(w) : w \in {4, 8}}
        \cup {BytesHeader_for_len(n) : n \in LenSamples}
        \cup {BoolHeader_new(b) : b \in BOOLEAN}
        \cup {UnitHeader, NullHeader}

InitHeader ==
    /\ src \in [header : HeaderSamples, config : Configs]
    /\ input = <<>>
    /\ readerKind = "slice"
    /\ usize_bits = 64
    /\ offset = 0
    /\ pos = 0
    /\ op = "init"
    /\ res = [ok |-> TRUE, val |-> "none", start |-> from_reader, clean |-> TRUE]

EncodeHeader ==
    /\ op = "init"
    /\ input' = encode_header(src.header)
    /\ op' = "encode_header"
    /\ UNCHANGED <<src, readerKind, usize_bits, offset, pos, res>>

EncodeBool ==
    /\ op = "init"
    /\ src.header.kind = "Bool"
    /\ input' = encode_bool(src.header.value)
    /\ op' = "encode_bool"
    /\ UNCHANGED <<src, readerKind, usize_bits, offset, pos, res>>

\* encode_bool_value of the BoolValue holding the header's value
EncodeBoolValue ==
    /\ op = "init"
    /\ src.header.kind = "Bool"
    /\ input' = encode_bool_value(BoolValue(src.header.value))
    /\ op' = "encode_bool_value"
    /\ UNCHANGED <<src, readerKind, usize_bits, offset, pos, res>>

EncodeBoolHeader ==
    /\ op = "init"
    /\ src.header.kind = "Bool"
    /\ input' = encode_bool_header(src.header)
    /\ op' = "encode_bool_header"
    /\ UNCHANGED <<src, readerKind, usize_bits, offset, pos, res>>

Encoded ==
    op \in {"encode_header", "encode_bool", "encode_bool_value",
            "encode_bool_header"}

\* decode_header over a fresh decoder on the bytes just written
DecodeEncodedHeader ==
    /\ Encoded
    /\ Apply("decode_header", decode_header(input, Decoder))

NextHeader ==
    \/ EncodeHeader
    \/ EncodeBool
    \/ EncodeBoolValue
    \/ EncodeBoolHeader
    \/ DecodeEncodedHeader

SpecHeader == InitHeader /\ [][NextHeader]_vars

----------------------------------------------------------------------------
(* IntValue comparison runs: the proptests eq, ord and hash of int.rs draw *)
(* a signed from the i8 range and an unsigned from the u8 range and build  *)
(* each at the four widths.                                                *)

SignedSamples ==
    (I8_MIN..(I8_MIN + Spread)) \cup ((0 - Spread)..Spread)
        \cup ((I8_MAX - Spread)..I8_MAX)

UnsignedSamples ==
    (0..Spread) \cup ((I8_MAX - Spread)..(I8_MAX + Spread))
        \cup ((U8_MAX - Spread)..U8_MAX)

\* signed_values / unsigned_values of the tests
signed_values(s) == {FromSigned(w, i64(s)) : w \in Widths}
unsigned_values(u) == {FromUnsigned(w, u64(u)) : w \in Widths}

NoDecoder ==
    /\ input = <<>>
    /\ readerKind = "slice"
    /\ offset = 0
    /\ pos = 0

InitInt ==
    /\ src \in [s : SignedSamples, u : UnsignedSamples]
    /\ NoDecoder
    /\ usize_bits \in Targets
    /\ op = "init"
    /\ res = [out |-> "none"]

Operands == signed_values(src.s) \cup unsigned_values(src.u)

EqOp ==
    /\ op = "init"
    /\ \E l \in Operands, r \in Operands :
          res' = [lhs |-> l, rhs |-> r, out |-> IntValue_eq(l, r)]
    /\ op' = "eq"
    /\ UNCHANGED <<src, input, readerKind, usize_bits, offset, pos>>

CmpOp ==
    /\ op = "init"
    /\ \E l \in Operands, r \in Operands :
          res' = [lhs |-> l, rhs |-> r, out |-> IntValue_cmp(l, r)]
    /\ op' = "cmp"
    /\ UNCHANGED <<src, input, readerKind, usize_bits, offset, pos>>

HashOp ==
    /\ op = "init"
    /\ \E l \in Operands, r \in Operands :
          res' = [lhs |-> l, rhs |-> r,
                  out |-> <<IntValue_hash(l), IntValue_hash(r)>>]
    /\ op' = "hash"
    /\ UNCHANGED <<src, input, readerKind, usize_bits, offset, pos>>

\* the operands, the same integers moved up by one and by two bytes so
\* that the wider extended forms are written, and the ends of i64 and u64
RoundtripOperands ==
    Operands
        \cup {FromSigned(w, i64(src.s * k)) : w \in {32, 64}, k \in {256, 65536}}
        \cup {FromUnsigned(w, u64(src.u * k)) : w \in {32, 64}, k \in {256, 65536}}
        \cup {FromSigned(64, <<0, 0, 0, 0, 0, 0, 0, 128>>),
              FromSigned(64, <<255, 255, 255, 255, 255, 255, 255, 127>>),
              FromUnsigned(64, <<255, 255, 255, 255, 255, 255, 255, 255>>)}

\* tests::encode_decode_roundtrip of int.rs: encode_int_value, then
\* decode_int_value and decode_value, each over a fresh slice reader
IntRoundtrip ==
    /\ op = "init"
    /\ \E v \in RoundtripOperands :
          /\ input' = encode_int_value(v)
          /\ res' = [value |-> v,
                     out |-> <<decode_int_value(input', from_reader),
                               decode_value(input', "slice", from_reader)>>]
    /\ offset' = res'.out[2].d.off
    /\ pos' = res'.out[2].d.pos
    /\ op' = "roundtrip"
    /\ UNCHANGED <<src, readerKind, usize_bits>>

\* IntValue::from(x) of an isize x, beside IntValue::from(x as i64)
FromIsize ==
    /\ op = "init"
    /\ res' = [lhs |-> from_size(usize_bits, i64(src.s)),
               rhs |-> FromSigned(64, i64(src.s)),
               out |-> <<IntValue_eq(from_size(usize_bits, i64(src.s)),
                                     FromSigned(64, i64(src.s))),
                         IntValue_eq(FromSigned(64, i64(src.s)),
                                     from_size(usize_bits, i64(src.s)))>>]
    /\ op' = "from_isize"
    /\ UNCHANGED <<src, input, readerKind, usize_bits, offset, pos>>

\* IntValue::from(y) of a usize y, beside IntValue::from(y as u64)
FromUsize ==
    /\ op = "init"
    /\ res' = [lhs |-> from_size(usize_bits, u64(src.u)),
               rhs |-> FromUnsigned(64, u64(src.u)),
               out |-> <<IntValue_eq(from_size(usize_bits, u64(src.u)),
                                     FromUnsigned(64, u64(src.u))),
                         IntValue_eq(FromUnsigned(64, u64(src.u)),
                                     from_size(usize_bits, u64(src.u)))>>]
    /\ op' = "from_usize"
    /\ UNCHANGED <<src, input, readerKind, usize_bits, offset, pos>>

NextInt == EqOp \/ CmpOp \/ HashOp \/ IntRoundtrip \/ FromIsize \/ FromUsize

SpecInt == InitInt /\ [][NextInt]_vars

----------------------------------------------------------------------------
(* Wire runs: the decoder over bytes that need not be a valid encoding, on  *)
(* either reader and either target.  The input is a header byte followed   *)
(* by a prefix of a body, so that every read also meets the end of input.  *)

\* one header byte of every kind; for Seq every extended width, compact
\* lengths, and extended bytes with the bit between the variant bit and the
\* width bits set; for Bytes every width exponent
HeadBytes ==
    {SeqHeader_TYPE_BITS + w : w \in {0, 1, 2, 3, SeqHeader_EXTENDED_LEN_WIDTH_BITS}}
        \cup {SeqHeader_TYPE_BITS + 8 + w : w \in {0, 1}}
        \cup {SeqHeader_TYPE_BITS + SeqHeader_COMPACT_VARIANT_BIT + n : n \in {0, 2, 3}}
        \cup {BytesHeader_TYPE_BITS + e : e \in 0..BytesHeader_LEN_WIDTH_EXPONENT_BITS}
        \cup {IntHeader_TYPE_BITS, StringHeader_TYPE_BITS, MapHeader_TYPE_BITS,
              FloatHeader_TYPE_BITS, BoolHeader_TYPE_BITS,
              BoolHeader_TYPE_BITS + BoolHeader_VALUE_BIT,
              UnitHeader_TYPE_BITS, NullHeader_TYPE_BITS}

\* bodies: lengths of one to eight bytes that fit or exceed a 16-bit usize,
\* followed by children or body bytes
Bodies ==
    {<<0, 0, 0, 0, 0, 0, 0, 2, 2, 3>>,
     <<2, 42, 255, 3>>,
     <<1, 0, 0, 2, 3>>,
     <<4, 1, 42, 2, 3>>}

Prefixes(q) == {SubSeq(q, 1, n) : n \in 0..Len(q)}

Tails == UNION {Prefixes(b) : b \in Bodies}

InitWire ==
    /\ src \in [head : HeadBytes, tail : Tails]
    /\ input = <<src.head>> \o src.tail
    /\ readerKind \in {"slice", "stream"}
    /\ usize_bits \in Targets
    /\ offset = 0
    /\ pos = 0
    /\ op = "init"
    /\ res = [ok |-> TRUE, val |-> "none", start |-> from_reader, arg |-> "none",
              clean |-> TRUE]

\* the state after an operation that was given arg and returned r
ApplyOf(name, r, arg) ==
    /\ op' = name
    /\ res' = [ok |-> r.ok, val |-> r.val, start |-> Decoder, arg |-> arg,
               clean |-> res.clean /\ r.ok]
    /\ offset' = r.d.off
    /\ pos' = r.d.pos
    /\ UNCHANGED <<src, input, readerKind, usize_bits>>

PullByte ==
    ApplyOf("pull_byte", pull_byte(input, Decoder), 1)

PullBytesInto ==
    \E n \in 0..MaxPull :
          ApplyOf("pull_bytes_into", pull_bytes_into(input, Decoder, n), n)

\* pull_bytes with a cleared scratch, as in test::pull_bytes
PullBytes ==
    \E n \in 0..MaxPull :
          ApplyOf("pull_bytes",
                  pull_bytes(input, readerKind, Decoder, u64(n), <<>>), n)

DecodeSeqHeader ==
    ApplyOf("decode_seq_header", decode_seq_header(input, Decoder), "none")

DecodeBytesHeader ==
    ApplyOf("decode_bytes_header", decode_bytes_header(input, Decoder), "none")

\* decode_seq_value_of, with the header the preceding decode_seq_header returned
DecodeSeqValueOf ==
    /\ op = "decode_seq_header" /\ res.ok
    /\ ApplyOf("decode_seq_value_of",
               decode_seq_value_of(input, readerKind, Decoder, res.val), res.val)

\* decode_bytes with a fresh scratch
DecodeBytesRef ==
    ApplyOf("decode_bytes", decode_bytes(input, readerKind, Decoder, <<>>), <<>>)

DecodeBytesBuf ==
    ApplyOf("decode_bytes_buf", decode_bytes_buf(input, readerKind, Decoder),
               "none")

\* skip_seq_value_of, with the header the preceding decode_seq_header returned
SkipSeqValueOf ==
    /\ op = "decode_seq_header" /\ res.ok
    /\ ApplyOf("skip_seq_value_of",
               skip_seq_value_of(input, readerKind, Decoder, res.val), res.val)

\* decode_bytes_value_of and skip_bytes_value_of, with the header the
\* preceding decode_bytes_header returned
DecodeBytesValueOf ==
    /\ op = "decode_bytes_header" /\ res.ok
    /\ ApplyOf("decode_bytes_value_of",
               decode_bytes_value_of(input, readerKind, Decoder, res.val), res.val)

SkipBytesValueOf ==
    /\ op = "decode_bytes_header" /\ res.ok
    /\ ApplyOf("skip_bytes_value_of",
               skip_bytes_value_of(input, Decoder, res.val), res.val)

\* decode_header right after a peek_marker that returned a marker, with no
\* read in between
DecodeHeaderAfterPeek ==
    /\ op = "peek_marker" /\ res.ok
    /\ ApplyOf("decode_header_after_peek", decode_header(input, Decoder), res.val)

NextWire ==
    \/ PeekMarker
    \/ DecodeHeaderAfterPeek
    \/ DecodeHeader
    \/ DecodeValue
    \/ SkipValue
    \/ PullByte
    \/ PullBytesInto
    \/ PullBytes
    \/ DecodeSeqHeader
    \/ DecodeBytesHeader
    \/ DecodeSeqValueOf
    \/ DecodeBytesRef
    \/ DecodeBytesBuf
    \/ SkipSeqValueOf
    \/ DecodeBytesValueOf
    \/ SkipBytesValueOf
    \/ DecodeSeqValue
    \/ DecodeBytesValue

SpecWire == InitWire /\ [][NextWire]_vars

----------------------------------------------------------------------------
(* Loop runs: one call of decode_value or skip_value over bytes that need  *)
(* not be a valid encoding, taken one value at a time.  Every step is one  *)
(* header and, for a value without children, its body; the sequence and    *)
(* map loops that are still running are kept as the iterations they have   *)
(* left, the innermost last: `left` counts the current iteration, `each`   *)
(* is the values of one iteration (a key and a value for a map), `half`    *)
(* says that the key of the current entry is read, `key` holds it, and     *)
(* `acc` is the items or entries decode_value has pushed so far.  `keep`   *)
(* is set in the loops of decode_value; those of skip_value build nothing. *)

\* sequences and maps whose headers declare few or very many elements, and
\* values without children
LoopHeads ==
    {SeqHeader_TYPE_BITS + w : w \in {0, 2, 3, 7}}
        \cup {SeqHeader_TYPE_BITS + SeqHeader_COMPACT_VARIANT_BIT + n : n \in {0, 2, 3}}
        \cup {MapHeader_TYPE_BITS + 3,
              MapHeader_TYPE_BITS + MapHeader_COMPACT_VARIANT_BIT + 1,
              BytesHeader_TYPE_BITS, BoolHeader_TYPE_BITS}

\* a length of one to eight bytes or a first child, then children, some of
\* them sequences and maps themselves
LoopBodies ==
    {<<1, 0, 0, 2, 3>>,
     <<128, 0, 0, 0, 0, 0, 0, 1, 3>>,
     <<255, 255, 255, 255, 0, 1>>,
     <<50, 2, 49, 0, 3, 1>>,
     <<3, 48, 25, 2, 3, 0>>,
     <<4, 1, 42, 2, 3>>}

LoopTails == UNION {Prefixes(b) : b \in LoopBodies}

InitLoop ==
    /\ src \in [head : LoopHeads, tail : LoopTails,
                call : {"decode_value", "skip_value"}]
    /\ input = <<src.head>> \o src.tail
    /\ readerKind \in {"slice", "stream"}
    /\ usize_bits \in Targets
    /\ offset = 0
    /\ pos = 0
    /\ op = "running"
    /\ res = [ok |-> TRUE, start |-> from_reader, loops |-> <<>>]

\* the call returns r
Returned(r, loops) == [returned |-> TRUE, r |-> r, loops |-> loops]

\* the call goes on with the loops that are left
Continued(d, loops) == [returned |-> FALSE, r |-> Ok(d, "none"), loops |-> loops]

\* seq.push(value) of decode_seq_of, and the entry made of the key read
\* before and the value
Pushed(f, v) ==
    IF ~f.keep THEN <<>>
    ELSE IF f.each = 1 THEN Append(f.acc, v)
    ELSE Append(f.acc, <<f.key[1], v>>)

\* what a loop that has run out returns: Ok(()) when skipping, the SeqValue
\* or MapValue of what was pushed when decoding
Closed(f, acc) ==
    IF ~f.keep THEN "unit"
    ELSE IF f.each = 1 THEN SeqValue(acc) ELSE MapValue(acc)

\* for _ in 0..len: the value v of the innermost loop is done.  The key of
\* a map entry is followed by its value; otherwise the loop has one
\* iteration less to go, and a loop with none left is itself a value of the
\* loop around it.  The call returns when no loop is left.
RECURSIVE Completed(_, _, _)
Completed(d, v, loops) ==
    IF loops = <<>> THEN Returned(Ok(d, v), <<>>)
    ELSE LET n == Len(loops)
             f == loops[n]
         IN  IF f.each = 2 /\ ~f.half
             THEN Continued(d, [loops EXCEPT ![n] =
                                   [f EXCEPT !.half = TRUE,
                                             !.key = IF f.keep THEN <<v>> ELSE <<>>]])
             ELSE IF f.left = u64(1)
             THEN Completed(d, Closed(f, Pushed(f, v)), SubSeq(loops, 1, n - 1))
             ELSE Continued(d, [loops EXCEPT ![n] =
                                   [f EXCEPT !.left = u64_pred(f.left),
                                             !.half = FALSE,
                                             !.key = <<>>,
                                             !.acc = Pushed(f, v)]])

\* a plausible slip: a failed element is dropped and the loop goes on
Propagated_dropped(r, loops) == Completed(r.d, r.val, loops)

\* the `?` on a header or an element: its error is the error of the call
Propagated(r, loops) == Returned(r, loops)

\* the loop a header opens: header.len() iterations, of one value for a
\* sequence, of a key and a value for a map; Seq::default() is empty
Elements(header) ==
    [each |-> IF header.kind = "Seq" THEN 1 ELSE 2,
     left |-> Header_len(header),
     half |-> FALSE,
     keep |-> src.call = "decode_value",
     key |-> <<>>,
     acc |-> <<>>]

\* one value of the call: its header h, then its body or the loop it opens
\* a header that opens a loop of at least one pass
Opens(header) ==
    header.kind \in {"Seq", "Map"} /\ Header_len(header) # u64(0)

\* one value of the call: its header h, then the loop it opens or its body,
\* body being what the call returns for a value without children
Iteration(h, body, loops) ==
    IF ~h.ok THEN Propagated(h, loops)
    ELSE IF Opens(h.val) THEN Continued(h.d, Append(loops, Elements(h.val)))
    ELSE IF body.ok THEN Completed(body.d, body.val, loops)
    ELSE Propagated(body, loops)

\* the state after one value of the call; the call has a result once it
\* has returned
Stepped(o) ==
    /\ op' = IF o.returned THEN "returned" ELSE "running"
    /\ res' = IF o.returned
              THEN [ok |-> o.r.ok, val |-> o.r.val, start |-> from_reader,
                    loops |-> o.loops]
              ELSE [ok |-> TRUE, start |-> from_reader, loops |-> o.loops]
    /\ offset' = o.r.d.off
    /\ pos' = o.r.d.pos
    /\ UNCHANGED <<src, input, readerKind, usize_bits>>

DecodeValueStep ==
    /\ op = "running" /\ src.call = "decode_value"
    /\ Stepped(Iteration(decode_header(input, Decoder),
                         decode_value(input, readerKind, Decoder), res.loops))

SkipValueStep ==
    /\ op = "running" /\ src.call = "skip_value"
    /\ Stepped(Iteration(decode_header(input, Decoder),
                         skip_value(input, readerKind, Decoder), res.loops))

NextLoop ==
    \/ DecodeValueStep
    \/ SkipValueStep

\* The call runs without suspension: until it has returned, it goes on.
\* This is weak fairness of NextLoop, WF_vars(NextLoop), written out with
\* the guard of the steps in the place of ENABLED <<NextLoop>>_vars; the
\* two agree where a step changes the state, which IterationConsumes states.
Unsuspended == []<>(op = "returned") \/ []<><<NextLoop>>_vars

SpecLoop == InitLoop /\ [][NextLoop]_vars /\ Unsuspended

----------------------------------------------------------------------------
(* Claims.                                                                 *)

\* C1: for every valid encoding b of one value, skip_value on a fresh
\* decoder over b succeeds and leaves pos() = b.len(), the position
\* decode_value leaves on the same input.
C1_SkipEquivalence ==
    (op = "skip_value" /\ res.start = from_reader) =>
        /\ res.ok
        /\ pos = Len(input)
        /\ pos = decode_value(input, readerKind, from_reader).d.pos

\* C2: after any sequence of successful decoder operations on a decoder made
\* by from_reader, pos() is the number of bytes the reader has consumed.
C2_PosIsBytesConsumed == res.clean => pos = offset

\* C3: decode_value over encode_value(v) returns a value equal to v and
\* consumes exactly the encoded bytes, nested sequences and byte arrays
\* included.
C3_ValueRoundtrip ==
    (op = "decode_value" /\ res.start = from_reader) =>
        /\ res.ok
        /\ Value_eq(res.val, src.value)
        /\ pos = Len(input)
        /\ offset = Len(input)

C3_Witness ==
    /\ op = "decode_value"
    /\ res.start = from_reader
    /\ readerKind = "stream"
    /\ src.value = SeqValue(<<SeqValue(<<BytesValue(<<42, 255>>), BoolValue(FALSE)>>),
                              BytesValue(<<255>>)>>)
    /\ res.ok
    /\ res.val = src.value
    /\ pos = Len(input)

\* C4: decode_header over the bytes encode_header(h) wrote succeeds and
\* returns h: the same kind, the same compact or extended variant, the same
\* length or value.
C4_HeaderRoundtrip ==
    (op = "decode_header" /\ res.start = from_reader) =>
        /\ res.ok
        /\ res.val = src.header
        /\ pos = Len(input)

C4_Witness ==
    /\ op = "decode_header"
    /\ src.header = SeqHeader_extended(u64(65536))
    /\ Len(input) = 5
    /\ res.ok
    /\ res.val = src.header

\* C5: encode_int_value(v) writes at most 9 bytes, one header byte and at
\* most 8 body bytes, and decode_int_value and decode_value on those bytes
\* both return an integer equal to v.
C5_IntRoundtrip ==
    op = "roundtrip" =>
        /\ Len(input) <= 1 + 8
        /\ res.out[1].ok
        /\ IntValue_eq(res.out[1].val, res.value)
        /\ res.out[2].ok
        /\ res.out[2].val.kind = "Int"
        /\ IntValue_eq(res.out[2].val.int, res.value)

C5_Witness ==
    /\ op = "roundtrip"
    /\ res.value = FromSigned(64, i64(I8_MIN * 65536))
    /\ Len(input) = 5
    /\ res.out[1].ok
    /\ res.out[1].val = FromSigned(32, i64(I8_MIN * 65536))
    /\ res.out[2].ok

\* C6: IntValue equality does not depend on the width or on the signed or
\* unsigned representation: values built from the same signed integer at any
\* two widths are equal, likewise for the same unsigned integer, and a
\* signed-built value equals an unsigned-built one, in either argument order,
\* exactly when s >= 0 and s = u.
C6_EqWidthSignIndependent ==
    op = "eq" =>
        res.out = IF res.lhs.signed = res.rhs.signed
                  THEN TRUE
                  ELSE src.s >= 0 /\ src.s = src.u

C6_Witness ==
    /\ op = "eq"
    /\ res.lhs.signed /\ ~res.rhs.signed
    /\ res.lhs.width = 8 /\ res.rhs.width = 64
    /\ src.s = I8_MAX /\ src.u = I8_MAX
    /\ res.out = TRUE

\* C7: IntValue::cmp is the order of the mathematical integers: the same
\* integer at two widths compares Equal, a negative Signed is Less than every
\* Unsigned and every Unsigned is Greater than it, and a non-negative Signed
\* compares with an Unsigned as their magnitudes compare.
C7_CmpMathematicalOrder ==
    op = "cmp" =>
        LET l == res.lhs
            r == res.rhs
        IN  /\ l.signed = r.signed => res.out = "Equal"
            /\ l.signed /\ ~r.signed /\ src.s < 0 => res.out = "Less"
            /\ ~l.signed /\ r.signed /\ src.s < 0 => res.out = "Greater"
            /\ l.signed /\ ~r.signed /\ src.s >= 0 =>
                  res.out = prim_cmp(src.s, src.u)
            /\ ~l.signed /\ r.signed /\ src.s >= 0 =>
                  res.out = prim_cmp(src.u, src.s)

C7_Witness ==
    /\ op = "cmp"
    /\ res.lhs.signed /\ ~res.rhs.signed
    /\ src.s = I8_MIN /\ src.u = U8_MAX
    /\ res.out = "Less"

\* C8: two IntValues that compare equal feed the same bytes to the hasher,
\* a non-negative Signed against the Unsigned of the same magnitude and the
\* same integer at two widths included.
C8_EqualValuesHashEqual ==
    (op = "hash" /\ IntValue_eq(res.lhs, res.rhs)) => res.out[1] = res.out[2]

C8_Witness ==
    /\ op = "hash"
    /\ res.lhs.signed /\ ~res.rhs.signed
    /\ res.lhs.width = 16 /\ res.rhs.width = 32
    /\ src.s = I8_MAX /\ src.u = I8_MAX
    /\ res.out[1] = res.out[2]
    /\ Len(res.out[1]) = 8

\* bit i of a byte, bit 0 the lowest
Bit(byte, i) == (byte \div 2^i) % 2

\* C9: encode_bool(v), and encode_bool_header for a header holding v, write
\* exactly one byte, BoolHeader::TYPE_BITS with BoolHeader::VALUE_BIT set if
\* and only if v is true, and no body bytes.
C9_BoolOneByte ==
    (Encoded /\ src.header.kind = "Bool") =>
        /\ Len(input) = 1
        /\ input[1] = BoolHeader_TYPE_BITS
                        + (IF src.header.value THEN BoolHeader_VALUE_BIT ELSE 0)

C9_Witness ==
    /\ op = "encode_bool"
    /\ src.header = BoolHeader_new(TRUE)
    /\ input = <<BoolHeader_TYPE_BITS + BoolHeader_VALUE_BIT>>

\* C10 as stated: the header byte written for a bool v has the bits
\* 1 1 1 0 0 0 0 v, 0xE0 for false and 0xE1 for true.
C10_TablePattern ==
    (Encoded /\ src.header.kind = "Bool") =>
        input = <<IF src.header.value THEN 225 ELSE 224>>

\* C10, amended: the header byte written for a bool v has the bits
\* 0 0 0 0 0 0 1 v (bits 7..0), 0x02 for false and 0x03 for true.
C10_BoolBytePattern ==
    (Encoded /\ src.header.kind = "Bool") =>
        /\ \A i \in 2..7 : Bit(input[1], i) = 0
        /\ Bit(input[1], 1) = 1
        /\ Bit(input[1], 0) = (IF src.header.value THEN 1 ELSE 0)

C10_Witness ==
    /\ op = "encode_header"
    /\ src.header = BoolHeader_new(FALSE)
    /\ input = <<2>>

----------------------------------------------------------------------------
(* Claims about the decoder over arbitrary bytes, checked under SpecWire.   *)

\* the first byte the last operation stood on, and the bytes it consumed
\* after that byte
HeadByte == input[res.start.off + 1]
AfterHead == offset - res.start.off - 1

\* the last operation was a typed header decode that had a byte to read
TypedHeaderOp ==
    /\ op \in {"decode_seq_header", "decode_bytes_header"}
    /\ Remaining(input, res.start.off) >= 1

ExpectedMarker == IF op = "decode_seq_header" THEN "Seq" ELSE "Bytes"

\* the last operation read the length bytes of an extended header
ReadLength ==
    /\ TypedHeaderOp
    /\ res.ok
    /\ op = "decode_seq_header" => ~res.val.compact

\* C11 as stated: every extended header decoded by decode_seq_header and every
\* header decoded by decode_bytes_header reads 2^e length bytes after the
\* header byte, e in 0..3 being the low bits of the header byte: 1, 2, 4 or 8.
C11_PowerOfTwoLengthBytes ==
    ReadLength =>
        \E e \in 0..3 :
            /\ e = BitAnd(HeadByte, IF op = "decode_seq_header"
                                    THEN SeqHeader_EXTENDED_LEN_WIDTH_BITS
                                    ELSE BytesHeader_LEN_WIDTH_EXPONENT_BITS)
            /\ AfterHead = 2^e

\* C11, amended: decode_bytes_header reads 2^e length bytes, e being the
\* header byte's bits under BytesHeader::LEN_WIDTH_EXPONENT_BITS; an extended
\* header decoded by decode_seq_header reads 1 + w length bytes, w being the
\* header byte's bits under SeqHeader::EXTENDED_LEN_WIDTH_BITS.
C11_LengthBytesRead ==
    ReadLength =>
        AfterHead = IF op = "decode_seq_header"
                    THEN 1 + BitAnd(HeadByte, SeqHeader_EXTENDED_LEN_WIDTH_BITS)
                    ELSE 2^BitAnd(HeadByte, BytesHeader_LEN_WIDTH_EXPONENT_BITS)

C11_Witness ==
    /\ op = "decode_seq_header"
    /\ res.ok
    /\ HeadByte = SeqHeader_TYPE_BITS + 2
    /\ AfterHead = 3
    /\ res.val = SeqHeader_extended(u64(65536))

\* C13: a typed header decode (decode_bytes_header, decode_seq_header) over a
\* byte whose marker m is not the expected one fails with InvalidType, whose
\* expected field names the expected kind and whose unexpected field names m.
C13_InvalidTypeNamesBoth ==
    (TypedHeaderOp /\ detect(HeadByte) # ExpectedMarker) =>
        /\ ~res.ok
        /\ res.val.code = "InvalidType"
        /\ res.val.expected = ExpectedMarker
        /\ res.val.unexpected = detect(HeadByte)

C13_Witness ==
    /\ op = "decode_bytes_header"
    /\ HeadByte = SeqHeader_TYPE_BITS
    /\ ~res.ok
    /\ res.val.code = "InvalidType"
    /\ res.val.expected = "Bytes"
    /\ res.val.unexpected = "Seq"

\* C14: every decoder error that carries a position carries pos() as it was
\* at the start of the datum, the offset of the value's header byte; so for
\* InvalidType of pull_byte_expecting and NumberOutOfRange of pull_len_bytes.
C14_ErrorAtHeaderByte ==
    (TypedHeaderOp /\ ~res.ok /\ res.val.pos # NoPos) =>
        res.val.pos = res.start.pos

\* C16: a header byte with a reserved bit set is refused with InvalidHeader;
\* decode_seq_header and decode_bytes_header never accept such a byte.  In
\* an extended Seq header the bit between the variant bit and the width bits
\* is the reserved one.
C16_ReservedBitsRefused ==
    (/\ op = "decode_seq_header"
     /\ Remaining(input, res.start.off) >= 1
     /\ detect(HeadByte) = "Seq"
     /\ BitAnd(HeadByte, SeqHeader_COMPACT_VARIANT_BIT) = 0
     /\ BitAnd(HeadByte, SeqHeader_COMPACT_VARIANT_BIT
                           - SeqHeader_EXTENDED_LEN_WIDTH_BITS - 1) # 0
     /\ Remaining(input, res.start.off)
            >= 2 + BitAnd(HeadByte, SeqHeader_EXTENDED_LEN_WIDTH_BITS)) =>
        /\ ~res.ok
        /\ res.val.code = "InvalidHeader"

\* the bytes a successful pull handed out, as a sequence
PulledBytes ==
    CASE op = "pull_byte" -> <<res.val>>
      [] op = "pull_bytes_into" -> res.val
      [] op = "pull_bytes" -> res.val.bytes

\* C17: a pull of n bytes (pull_byte, pull_bytes_into, pull_bytes) that finds
\* them returns the next n input bytes in order and advances pos by n, a
\* pull of 0 bytes included; a pull that asks for more than remain fails with
\* UnexpectedEndOfFile and leaves pos unchanged.
C17_PullPrimitives ==
    op \in {"pull_byte", "pull_bytes_into", "pull_bytes"} =>
        IF Remaining(input, res.start.off) >= res.arg
        THEN /\ res.ok
             /\ PulledBytes = Slice(input, res.start.off, res.arg)
             /\ pos = res.start.pos + res.arg
        ELSE /\ ~res.ok
             /\ res.val.code = "UnexpectedEndOfFile"
             /\ pos = res.start.pos

C17_Witness ==
    /\ op = "pull_bytes_into"
    /\ res.arg = 2
    /\ res.start.pos = Len(input) - 1
    /\ res.start.pos > 0
    /\ ~res.ok
    /\ res.val.code = "UnexpectedEndOfFile"
    /\ pos = res.start.pos

\* the length bytes an extended header of the expected kind carries, and the
\* number they spell
LengthWidth ==
    IF op = "decode_seq_header"
    THEN 1 + BitAnd(HeadByte, SeqHeader_EXTENDED_LEN_WIDTH_BITS)
    ELSE 2^BitAnd(HeadByte, BytesHeader_LEN_WIDTH_EXPONENT_BITS)

WireLength == from_be_bytes(Slice(input, res.start.off + 1, LengthWidth))

\* the last operation decoded a header whose length is on the wire in full
\* and does not fit the usize of the target
LengthOutOfRange ==
    /\ op \in {"decode_seq_header", "decode_bytes_header",
               "decode_bytes", "decode_bytes_buf"}
    /\ Remaining(input, res.start.off) >= 1
    /\ detect(HeadByte) = (IF op = "decode_seq_header" THEN "Seq" ELSE "Bytes")
    /\ op = "decode_seq_header" => BitAnd(HeadByte, SeqHeader_COMPACT_VARIANT_BIT) = 0
    /\ Remaining(input, res.start.off) >= 1 + LengthWidth
    /\ ~u64_fits(WireLength, usize_bits \div 8)

\* C15: a length read from the wire that does not fit the platform index
\* type makes header decoding fail with NumberOutOfRange, before any body
\* byte is read and before a buffer or sequence is made for the value.
C15_LengthOutOfRange ==
    LengthOutOfRange =>
        /\ ~res.ok
        /\ res.val.code = "NumberOutOfRange"
        /\ AfterHead = LengthWidth

C15_Witness ==
    /\ op = "decode_bytes_buf"
    /\ usize_bits = 16
    /\ input = <<BytesHeader_TYPE_BITS + 2, 1, 0, 0, 2>>
    /\ ~res.ok
    /\ res.val.code = "NumberOutOfRange"
    /\ offset = 5

\* C12: decode_bytes returns the Reference as the reader's read(len, scratch)
\* made it: Borrowed, a sub-slice of the input with scratch untouched, on a
\* slice reader; Copied, living in scratch, on a streaming reader.
C12_ReferenceArmPreserved ==
    (op = "decode_bytes" /\ res.ok) =>
        /\ res.val = read(input, readerKind, offset - Len(res.val.bytes),
                          u64(Len(res.val.bytes)), res.arg).val
        /\ readerKind = "slice" =>
              /\ res.val.arm = "Borrowed"
              /\ res.val.scratch = res.arg
        /\ readerKind = "stream" =>
              /\ res.val.arm = "Copied"
              /\ res.val.scratch = res.val.bytes

C12_Witness ==
    /\ op = "decode_bytes"
    /\ readerKind = "slice"
    /\ res.ok
    /\ res.val.arm = "Borrowed"
    /\ res.val.bytes = <<42, 255>>
    /\ res.val.scratch = <<>>

\* what the i-th of a run of decode_value calls from d returns, the run
\* ending with the first call that fails
RECURSIVE NthChild(_, _)
NthChild(d, i) ==
    IF i = 1 THEN decode_value(input, readerKind, d)
    ELSE Try(NthChild(d, i - 1), LAMBDA r : decode_value(input, readerKind, r.d))

\* C18: decode_seq_value_of(header) calls decode_value header.len() times and
\* returns the header.len() children in wire order; when the i-th child
\* fails, its error is returned at once, with no partial sequence and no
\* further child read.
C18_SeqChildren ==
    op = "decode_seq_value_of" =>
        IF res.ok
        THEN /\ res.val.kind = "Seq"
             /\ u64(Len(res.val.items)) = Header_len(res.arg)
             /\ \A i \in 1..Len(res.val.items) :
                   /\ NthChild(res.start, i).ok
                   /\ res.val.items[i] = NthChild(res.start, i).val
             /\ Decoder = IF res.val.items = <<>> THEN res.start
                          ELSE NthChild(res.start, Len(res.val.items)).d
        ELSE \E i \in 1..(Len(input) + 1) :
                /\ u64_cmp(u64(i), Header_len(res.arg)) # "Greater"
                /\ \A j \in 1..(i - 1) : NthChild(res.start, j).ok
                /\ ~NthChild(res.start, i).ok
                /\ res.val = NthChild(res.start, i).val
                /\ Decoder = NthChild(res.start, i).d

C18_Witness ==
    /\ op = "decode_seq_value_of"
    /\ input = <<SeqHeader_TYPE_BITS + SeqHeader_COMPACT_VARIANT_BIT + 3, 4, 1, 42, 2>>
    /\ res.arg = SeqHeader_compact(3)
    /\ ~res.ok
    /\ res.val.code = "UnexpectedEndOfFile"
    /\ offset = Len(input)

\* C19: decode_bytes_buf returns an owned buffer holding exactly the
\* header.len() body bytes, once, whether the reader answered Borrowed (slice
\* reader) or Copied (streaming reader).
C19_OwnedBufferIsBody ==
    (op = "decode_bytes_buf" /\ res.ok) =>
        /\ u64(Len(res.val)) = decode_bytes_header(input, res.start).val.len
        /\ res.val = Slice(input, offset - Len(res.val), Len(res.val))
        /\ offset = decode_bytes_header(input, res.start).d.off + Len(res.val)

C19_Witness ==
    /\ op = "decode_bytes_buf"
    /\ readerKind = "stream"
    /\ res.ok
    /\ res.val = <<42, 255>>
    /\ res.start = from_reader

----------------------------------------------------------------------------
(* Claims about IntValue::from of the pointer-sized types, under SpecInt.   *)

\* C20: IntValue::from keeps the mathematical integer of an isize x, negative
\* x included, and of a usize y: it compares equal to IntValue::from(x as i64)
\* and to IntValue::from(y as u64).
C20_SizePreserved ==
    op \in {"from_isize", "from_usize"} => res.out = <<TRUE, TRUE>>

----------------------------------------------------------------------------
(* Claims about the marker dispatch, under SpecWire.                        *)

\* C21: a decode_header that follows a peek_marker which returned m, with no
\* read in between, either fails with an error other than InvalidType or
\* returns a header h with h.marker() = m; decode_header, decode_value and
\* skip_value never fail with InvalidType, whatever the input byte.
C21_PeekAgreesWithHeader ==
    /\ op = "decode_header_after_peek" =>
          IF res.ok THEN Header_marker(res.val) = res.arg
          ELSE res.val.code # "InvalidType"
    /\ (op \in {"decode_header", "decode_value", "skip_value"} /\ ~res.ok) =>
          res.val.code # "InvalidType"

C21_Witness ==
    /\ op = "decode_header_after_peek"
    /\ res.arg = "Seq"
    /\ HeadByte = SeqHeader_TYPE_BITS + 8 + 1
    /\ res.ok
    /\ Header_marker(res.val) = "Seq"
    /\ res.val = SeqHeader_extended(u64(256))

----------------------------------------------------------------------------
(* Claims about termination, under SpecLoop.                                *)

\* what the whole call returns on the input
Called ==
    IF src.call = "decode_value" THEN decode_value(input, readerKind, from_reader)
    ELSE skip_value(input, readerKind, from_reader)

\* the step the call takes next
Upcoming ==
    Iteration(decode_header(input, Decoder),
              IF src.call = "decode_value"
              THEN decode_value(input, readerKind, Decoder)
              ELSE skip_value(input, readerKind, Decoder),
              res.loops)

\* every pass of a loop consumes input or ends the call
IterationConsumes ==
    op = "running" => (Upcoming.returned \/ Upcoming.r.d.off > offset)

\* the call has returned what the whole call returns, where it returns it
ReturnedAsCalled ==
    op = "returned" =>
        /\ res.ok = Called.ok
        /\ Decoder = Called.d
        /\ (~res.ok \/ src.call = "decode_value") => res.val = Called.val
        /\ (res.ok /\ src.call = "skip_value") => res.val = "unit"

\* C22: on every finite input, also one whose sequence header declares far
\* more elements than there are bytes left, decode_value and skip_value
\* terminate: every iteration of the sequence loops consumes at least one
\* input byte or returns an error, so the call ends, with a value or with
\* the error of the failed element.
C22_LoopsTerminate ==
    /\ [](IterationConsumes)
    /\ <>(op = "returned")
    /\ [](ReturnedAsCalled)

C22_Witness ==
    /\ op = "returned"
    /\ input = <<SeqHeader_TYPE_BITS + 7, 128, 0, 0, 0, 0, 0, 0, 1, 3>>
    /\ usize_bits = 64
    /\ src.call = "decode_value"
    /\ res.loops = <<[each |-> 1, left |-> <<0, 0, 0, 0, 0, 0, 0, 128>>,
                      half |-> FALSE, keep |-> TRUE, key |-> <<>>,
                      acc |-> <<BoolValue(TRUE)>>]>>
    /\ offset = Len(input)
    /\ ~res.ok
    /\ res.val.code = "UnexpectedEndOfFile"

====
